---- MODULE Spec2Model ----
(***************************************************************************)
(* Model of the codescribe repository.                                     *)
(*                                                                         *)
(*  - DB_agent: the customers table, the four accessor tools               *)
(*    (tools/create.py, retrieve.py, update.py, delete.py), the seeding    *)
(*    routine (database.py) and the CLI of agent.py that registers the     *)
(*    tools with a retry budget and drives them from a read-eval loop.     *)
(*  - codescribe/oauth_helper.py: OAuthHelper.get_credentials and the      *)
(*    token file it loads, refreshes, creates and saves.                   *)
(*  - codescribe/config.py and langextract_demo.py: the configuration      *)
(*    object and the demo's set-up of the process environment.             *)
(*                                                                         *)
(* The accessors hold no error handling of their own: a tool raises when   *)
(* the table's constraints reject its statement or when the store cannot   *)
(* be reached, and the wrapper of agent.py decides what follows.           *)
(***************************************************************************)
EXTENDS Integers, Sequences, FiniteSets, TLC

VARIABLES
    store,       \* rows of the customers table (committed state)
    nextId,      \* next value of the SERIAL sequence behind customers.id
    now,         \* the store's clock, read by DEFAULT NOW()
    pc,          \* position of agent.py's main()
    response,    \* what the last tool invocation returned or raised
    pending,     \* the tool invocation the wrapper is retrying, or NoCall
    retries,     \* retries the wrapper has used for the pending invocation
    seedReturn,  \* return value of the last seed_database() call
    seedMsg,     \* what the last seed_database() call printed
    bootMsg,     \* what main() printed last about its startup
    exitMsg,     \* what the process of agent.py printed as it ended
    tokenFile,   \* content of token.json
    credentialsFile, \* whether credentials.json exists
    nextToken,   \* the next access token the authorization server issues
    opc,         \* position of OAuthHelper.get_credentials
    creds,       \* the local variable creds of get_credentials
    tokenAtCall, \* content of token.json when get_credentials was entered
    flowRuns,    \* calls of _run_oauth_flow made by this get_credentials
    refreshRuns, \* calls of creds.refresh made by this get_credentials
    returned,    \* what get_credentials returned
    caller,      \* who called get_credentials: "direct" or setup_environment
    setupReturn, \* what setup_environment returned
    env,         \* os.environ
    config,      \* the Config instance: its GOOGLE_API_KEY
    keyAtInit,   \* GOOGLE_API_KEY in os.environ when the Config was constructed
    validated,   \* how the last call of config.validate() ended
    dpc,         \* position of langextract_demo.py's main()
    mode,        \* the auth mode main() chose
    extracted    \* whether run_extraction was called

dbVars == <<store, nextId, now, pc, response, pending, retries, seedReturn, seedMsg,
            bootMsg, exitMsg>>
oauthVars == <<tokenFile, credentialsFile, nextToken, opc, creds, tokenAtCall,
               flowRuns, refreshRuns, returned, caller, setupReturn, env>>
demoVars == <<config, keyAtInit, validated, dpc, mode, extracted>>
vars == <<store, nextId, now, pc, response, pending, retries, seedReturn, seedMsg,
          bootMsg, exitMsg,
          tokenFile, credentialsFile, nextToken, opc, creds, tokenAtCall,
          flowRuns, refreshRuns, returned, caller, setupReturn, env,
          config, keyAtInit, validated, dpc, mode, extracted>>

----------------------------------------------------------------------------
(* Bounds of the model.                                                    *)

\* Largest value the id sequence hands out.
MaxId == 5
\* Largest value of the store's clock.
MaxNow == 2
\* Largest access token the authorization server issues.
MaxToken == 3

----------------------------------------------------------------------------
(* The customers table.                                                    *)

\* database.py:91-95
sample_customers ==
    << [email |-> "johndoe@gmail.com", full_name |-> "John Doe",
        bio |-> "I am a software engineer"],
       [email |-> "janedoe@gmail.com", full_name |-> "Jane Doe",
        bio |-> "I am a data scientist"],
       [email |-> "jimdoe@gmail.com", full_name |-> "Jim Doe",
        bio |-> "I am a product manager"] >>

\* Arguments the hosted model passes to the tools, those of the queries of
\* test_agent.py: a seeded email and one seeding never creates, and the
\* (full_name, bio) pairs of its create and update queries.
Emails == {sample_customers[1].email, "test@example.com"}
Profiles == {<<"Test User", "Test customer for validation">>,
             <<"Updated Test User", "Updated bio for testing">>}

\* A variable that is not in os.environ.
Unset == "<unset>"

\* NULL of the store (None of models.py); ids and timestamps are positive.
Null == 0

\* agent.py:86-89, retries=3
ToolRetries == 3

\* Mutant: a table created without the UNIQUE constraint on email.
NoUniqueConstraint(table, email) == FALSE

\* email TEXT UNIQUE NOT NULL: the check the store makes before it adds a row.
UniqueViolation(table, email) == \E r \in table : r.email = email

\* Mutant: the insert payload with full_name and bio exchanged.
InsertRowSwapped(table, seq, ts, email, full_name, bio) ==
    IF UniqueViolation(table, email)
    THEN [table |-> table, seq |-> seq + 1, data |-> {}, error |-> "unique_violation"]
    ELSE LET row == [id |-> seq, email |-> email, full_name |-> bio,
                     bio |-> full_name, created_at |-> ts]
         IN [table |-> table \cup {row}, seq |-> seq + 1, data |-> {row},
             error |-> "none"]

\* Mutant: an upsert, which overwrites the row of an email already stored.
InsertRowUpsert(table, seq, ts, email, full_name, bio) ==
    LET row == [id |-> seq, email |-> email, full_name |-> full_name,
                bio |-> bio, created_at |-> ts]
    IN [table |-> {r \in table : r.email # email} \cup {row}, seq |-> seq + 1,
        data |-> {row}, error |-> "none"]

\* One INSERT INTO customers (email, full_name, bio): id and created_at are
\* filled by the store (SERIAL, DEFAULT NOW()).  The sequence value is taken
\* before the constraint is checked, so a rejected insert still uses one.
InsertRow(table, seq, ts, email, full_name, bio) ==
    IF UniqueViolation(table, email)
    THEN [table |-> table, seq |-> seq + 1, data |-> {}, error |-> "unique_violation"]
    ELSE LET row == [id |-> seq, email |-> email, full_name |-> full_name,
                     bio |-> bio, created_at |-> ts]
         IN [table |-> table \cup {row}, seq |-> seq + 1, data |-> {row},
             error |-> "none"]

\* SELECT * FROM customers WHERE email = ...
SelectByEmail(table, email) == {r \in table : r.email = email}

\* Mutant: an update payload that leaves full_name out.
UpdateRowOnlyBio(r, full_name, bio) == [r EXCEPT !.bio = bio]

\* UPDATE customers SET full_name = ..., bio = ... WHERE email = ...
UpdateRow(r, full_name, bio) == [r EXCEPT !.full_name = full_name, !.bio = bio]

\* Mutant: the update without its .eq("email", email) filter.
UpdateByEmailNoFilter(table, email, full_name, bio) ==
    LET new == {UpdateRow(r, full_name, bio) : r \in table}
    IN [table |-> new, data |-> new]

UpdateByEmail(table, email, full_name, bio) ==
    LET hit == SelectByEmail(table, email)
        new == {UpdateRow(r, full_name, bio) : r \in hit}
    IN [table |-> (table \ hit) \cup new, data |-> new]

\* Mutant: the delete without its .eq("email", email) filter.
DeleteNoFilter(table, email) == [table |-> {}, data |-> table]

\* Mutant: a delete that reports the matching rows and removes none.
DeleteKeepsRows(table, email) ==
    [table |-> table, data |-> {r \in table : r.email = email}]

\* DELETE FROM customers WHERE email = ...
DeleteByEmail(table, email) ==
    LET hit == SelectByEmail(table, email)
    IN [table |-> table \ hit, data |-> hit]

----------------------------------------------------------------------------
(* Tool invocations.                                                       *)

NoCall == [op |-> "none", email |-> "", full_name |-> "", bio |-> ""]
NoResponse == [op |-> "none", email |-> "", full_name |-> "", bio |-> "",
               data |-> {}, error |-> "none"]

Call(op, email, full_name, bio) ==
    [op |-> op, email |-> email, full_name |-> full_name, bio |-> bio]

Respond(c, data, error) ==
    [op |-> c.op, email |-> c.email, full_name |-> c.full_name, bio |-> c.bio,
     data |-> data, error |-> error]

\* What one run of a tool's body does to the store and what it returns; an
\* error other than "none" is an exception raised out of the tool.
RunTool(c, table, seq, ts) ==
    CASE c.op = "create" ->
            LET r == InsertRow(table, seq, ts, c.email, c.full_name, c.bio)
            IN [table |-> r.table, seq |-> r.seq, data |-> r.data, error |-> r.error]
      [] c.op = "read" ->
            [table |-> table, seq |-> seq, data |-> SelectByEmail(table, c.email),
             error |-> "none"]
      [] c.op = "update" ->
            LET r == UpdateByEmail(table, c.email, c.full_name, c.bio)
            IN [table |-> r.table, seq |-> seq, data |-> r.data, error |-> "none"]
      [] c.op = "delete" ->
            LET r == DeleteByEmail(table, c.email)
            IN [table |-> r.table, seq |-> seq, data |-> r.data, error |-> "none"]

\* Mutant: a wrapper that grants one retry more than the budget.
WrapperFourthRetry(c, used, error) ==
    IF error = "none"
    THEN [pending |-> NoCall, retries |-> 0, pc |-> "run"]
    ELSE IF used <= ToolRetries
    THEN [pending |-> c, retries |-> used, pc |-> "run"]
    ELSE [pending |-> NoCall, retries |-> 0, pc |-> "loop"]

\* The wrapper around a registered tool, after the tool ran with `used`
\* retries spent: when it raised, keep the invocation for a retry while the
\* budget lasts, otherwise surface the error, which ends the run.
Wrapper(c, used, error) ==
    IF error = "none"
    THEN [pending |-> NoCall, retries |-> 0, pc |-> "run"]
    ELSE IF used < ToolRetries
    THEN [pending |-> c, retries |-> used, pc |-> "run"]
    ELSE [pending |-> NoCall, retries |-> 0, pc |-> "loop"]

\* One invocation of a tool that reaches the store.  A surfaced error ends
\* the run: run_sync raises and line 133 of main() catches it.
Invoke(c, used) ==
    LET r == RunTool(c, store, nextId, now)
        w == Wrapper(c, used, r.error)
    IN /\ store' = r.table
       /\ nextId' = r.seq
       /\ response' = Respond(c, r.data, r.error)
       /\ pending' = w.pending
       /\ retries' = w.retries
       /\ pc' = w.pc
       /\ UNCHANGED <<now, seedReturn, seedMsg>>

\* One invocation of a tool whose request does not reach the store: execute()
\* raises and the store is as it was.
Unreachable(c, used) ==
    LET w == Wrapper(c, used, "unavailable")
    IN /\ response' = Respond(c, {}, "unavailable")
       /\ pending' = w.pending
       /\ retries' = w.retries
       /\ pc' = w.pc
       /\ UNCHANGED <<store, nextId, now, seedReturn, seedMsg>>

\* The invocations the hosted model can ask for.
Calls ==
    {Call("create", e, p[1], p[2]) : e \in Emails, p \in Profiles}
    \cup {Call("read", e, "", "") : e \in Emails}
    \cup {Call("update", e, p[1], p[2]) : e \in Emails, p \in Profiles}
    \cup {Call("delete", e, "", "") : e \in Emails}

create_customer(email, full_name, bio) ==
    /\ pc = "run"
    /\ pending = NoCall
    /\ nextId <= MaxId
    /\ Invoke(Call("create", email, full_name, bio), 0)
    /\ UNCHANGED <<bootMsg, exitMsg>>
    /\ UNCHANGED <<oauthVars, demoVars>>

get_customer_by_email(email) ==
    /\ pc = "run"
    /\ pending = NoCall
    /\ Invoke(Call("read", email, "", ""), 0)
    /\ UNCHANGED <<bootMsg, exitMsg>>
    /\ UNCHANGED <<oauthVars, demoVars>>

update_customer_by_email(email, full_name, bio) ==
    /\ pc = "run"
    /\ pending = NoCall
    /\ Invoke(Call("update", email, full_name, bio), 0)
    /\ UNCHANGED <<bootMsg, exitMsg>>
    /\ UNCHANGED <<oauthVars, demoVars>>

delete_customer_by_email(email) ==
    /\ pc = "run"
    /\ pending = NoCall
    /\ Invoke(Call("delete", email, "", ""), 0)
    /\ UNCHANGED <<bootMsg, exitMsg>>
    /\ UNCHANGED <<oauthVars, demoVars>>

\* agent.tool(retries=3): the invocation that raised is made again.
RetryTool ==
    /\ pc = "run"
    /\ pending # NoCall
    /\ nextId <= MaxId
    /\ Invoke(pending, retries + 1)
    /\ UNCHANGED <<bootMsg, exitMsg>>
    /\ UNCHANGED <<oauthVars, demoVars>>

\* A first invocation of any of the four tools raises for want of the store.
ToolRaises(c) ==
    /\ pc = "run"
    /\ pending = NoCall
    /\ Unreachable(c, 0)
    /\ UNCHANGED <<bootMsg, exitMsg>>
    /\ UNCHANGED <<oauthVars, demoVars>>

\* The invocation made again raises for want of the store.
RetryRaises ==
    /\ pc = "run"
    /\ pending # NoCall
    /\ Unreachable(pending, retries + 1)
    /\ UNCHANGED <<bootMsg, exitMsg>>
    /\ UNCHANGED <<oauthVars, demoVars>>

----------------------------------------------------------------------------
(* Seeding.                                                                *)

SeedFaults == {"none", "connect", "count", "insert", "commit"}

RECURSIVE ExecuteMany(_, _, _, _, _)
\* cur.executemany(INSERT ..., rows): the first n rows of the batch, in order,
\* inside the open transaction; stops at the first row the store rejects.
ExecuteMany(table, seq, ts, rows, n) ==
    IF n = 0
    THEN [table |-> table, seq |-> seq, error |-> "none"]
    ELSE LET before == ExecuteMany(table, seq, ts, rows, n - 1)
         IN IF before.error # "none"
            THEN before
            ELSE LET r == InsertRow(before.table, before.seq, ts, rows[n].email,
                                    rows[n].full_name, rows[n].bio)
                 IN [table |-> r.table, seq |-> r.seq, error |-> r.error]

\* Mutant: seeding without the row count that guards the insert.
SeedDatabaseNoCount(table, seq, ts, fault, k) ==
    IF fault = "connect"
    THEN [table |-> table, seq |-> seq, ret |-> FALSE, msg |-> "no connection"]
    ELSE IF fault = "count"
    THEN [table |-> table, seq |-> seq, ret |-> FALSE, msg |-> "error"]
    ELSE IF fault = "insert"
    THEN [table |-> table, seq |-> ExecuteMany(table, seq, ts, sample_customers, k).seq,
          ret |-> FALSE, msg |-> "error"]
    ELSE LET r == ExecuteMany(table, seq, ts, sample_customers, Len(sample_customers))
         IN IF r.error # "none" \/ fault = "commit"
            THEN [table |-> table, seq |-> r.seq, ret |-> FALSE, msg |-> "error"]
            ELSE [table |-> r.table, seq |-> r.seq, ret |-> TRUE, msg |-> "seeded"]

\* Mutant: a connection in autocommit mode, which keeps the rows inserted
\* before the statement that failed.
SeedDatabaseAutocommit(table, seq, ts, fault, k) ==
    IF fault = "connect"
    THEN [table |-> table, seq |-> seq, ret |-> FALSE, msg |-> "no connection"]
    ELSE IF fault = "count"
    THEN [table |-> table, seq |-> seq, ret |-> FALSE, msg |-> "error"]
    ELSE IF Cardinality(table) > 0
    THEN [table |-> table, seq |-> seq, ret |-> TRUE, msg |-> "skipped"]
    ELSE IF fault = "insert"
    THEN LET r == ExecuteMany(table, seq, ts, sample_customers, k)
         IN [table |-> r.table, seq |-> r.seq, ret |-> FALSE, msg |-> "error"]
    ELSE LET r == ExecuteMany(table, seq, ts, sample_customers, Len(sample_customers))
         IN IF r.error # "none" \/ fault = "commit"
            THEN [table |-> r.table, seq |-> r.seq, ret |-> FALSE, msg |-> "error"]
            ELSE [table |-> r.table, seq |-> r.seq, ret |-> TRUE, msg |-> "seeded"]

\* seed_database(): fault is the statement that fails (none, the connection,
\* the count, the insert after k rows, the commit); the table returned is the
\* committed one, the sequence keeps what the transaction used; msg is the
\* line the call prints.
SeedDatabase(table, seq, ts, fault, k) ==
    IF fault = "connect"
    THEN [table |-> table, seq |-> seq, ret |-> FALSE, msg |-> "no connection"]
    ELSE IF fault = "count"
    THEN [table |-> table, seq |-> seq, ret |-> FALSE, msg |-> "error"]
    ELSE IF Cardinality(table) > 0
    THEN [table |-> table, seq |-> seq, ret |-> TRUE, msg |-> "skipped"]
    ELSE IF fault = "insert"
    THEN [table |-> table, seq |-> ExecuteMany(table, seq, ts, sample_customers, k).seq,
          ret |-> FALSE, msg |-> "error"]
    ELSE LET r == ExecuteMany(table, seq, ts, sample_customers, Len(sample_customers))
         IN IF r.error # "none" \/ fault = "commit"
            THEN [table |-> table, seq |-> r.seq, ret |-> FALSE, msg |-> "error"]
            ELSE [table |-> r.table, seq |-> r.seq, ret |-> TRUE, msg |-> "seeded"]

----------------------------------------------------------------------------
(* agent.py main().                                                        *)

\* Values of SUPABASE_URL and SUPABASE_KEY: not set, empty, set.
SupabaseSettings == {Unset, "", "set"}

\* get_supabase_client(): TRUE when it returns a client, FALSE when it raises
\* (a setting is missing, or create_client raises: up is FALSE).
get_supabase_client(url, key, up) ==
    IF url \in {Unset, ""} \/ key \in {Unset, ""} THEN FALSE ELSE up

\* Mutant: main() going on to seeding whatever the connection attempt gave.
ConnectAnyway(ok) ==
    /\ pc = "start"
    /\ pc' = "seed"
    /\ bootMsg' = IF ok THEN "connected" ELSE "connect failed"
    /\ UNCHANGED <<store, nextId, now, response, pending, retries, seedReturn, seedMsg,
                   exitMsg>>
    /\ UNCHANGED <<oauthVars, demoVars>>

\* Lines 101-107: ok is whether get_supabase_client() returned.
Connect(ok) ==
    /\ pc = "start"
    /\ pc' = IF ok THEN "seed" ELSE "exited"
    /\ bootMsg' = IF ok THEN "connected" ELSE "connect failed"
    /\ UNCHANGED <<store, nextId, now, response, pending, retries, seedReturn, seedMsg,
                   exitMsg>>
    /\ UNCHANGED <<oauthVars, demoVars>>

\* Lines 109-114: seed_database() catches what its statements raise and
\* returns; main() does not look at what it returned.
seed_database(fault, k) ==
    /\ pc = "seed"
    /\ fault # "insert" => k = 0
    /\ store = {} => nextId + Len(sample_customers) - 1 <= MaxId
    /\ LET r == SeedDatabase(store, nextId, now, fault, k)
       IN /\ store' = r.table
          /\ nextId' = r.seq
          /\ seedReturn' = r.ret
          /\ seedMsg' = r.msg
    /\ bootMsg' = "seed success"
    /\ pc' = "loop"
    /\ UNCHANGED <<now, response, pending, retries, exitMsg>>
    /\ UNCHANGED <<oauthVars, demoVars>>

\* Lines typed at the prompt, as sequences of characters.
Lines ==
    { <<"q">>, <<" ", "Q", "u", "i", "t", " ">>, <<"E", "X", "I", "T">>,
      <<>>, <<" ", "\t">>,
      <<"q", " ", "q">>, <<"h", "i">> }

Uppercase == <<"A", "B", "C", "D", "E", "F", "G", "H", "I", "J", "K", "L", "M",
               "N", "O", "P", "Q", "R", "S", "T", "U", "V", "W", "X", "Y", "Z">>
Lowercase == <<"a", "b", "c", "d", "e", "f", "g", "h", "i", "j", "k", "l", "m",
               "n", "o", "p", "q", "r", "s", "t", "u", "v", "w", "x", "y", "z">>

IsSpace(c) == c \in {" ", "\t"}

RECURSIVE LStrip(_)
LStrip(s) == IF s # <<>> /\ IsSpace(Head(s)) THEN LStrip(Tail(s)) ELSE s

RECURSIVE RStrip(_)
RStrip(s) ==
    IF s # <<>> /\ IsSpace(s[Len(s)]) THEN RStrip(SubSeq(s, 1, Len(s) - 1)) ELSE s

\* Mutant: the line taken as typed.
StripNothing(s) == s

\* str.strip()
Strip(s) == RStrip(LStrip(s))

\* str.lower()
Lower(s) ==
    [i \in 1..Len(s) |->
        IF \E j \in 1..Len(Uppercase) : Uppercase[j] = s[i]
        THEN Lowercase[CHOOSE j \in 1..Len(Uppercase) : Uppercase[j] = s[i]]
        ELSE s[i]]

\* Line 121: ["quit", "exit", "q"]
exit_tokens == {<<"q", "u", "i", "t">>, <<"e", "x", "i", "t">>, <<"q">>}

\* One turn of the loop up to the agent run, lines 119-128.  What the tools
\* returned is gone with the process that ends.
ReadInput(line) ==
    /\ pc = "loop"
    /\ LET user_input == Strip(line)
       IN IF Lower(user_input) \in exit_tokens
          THEN pc' = "exited" /\ exitMsg' = "goodbye" /\ response' = NoResponse
          ELSE IF user_input = <<>>
          THEN pc' = "loop" /\ UNCHANGED <<exitMsg, response>>
          ELSE pc' = "run" /\ UNCHANGED <<exitMsg, response>>
    /\ UNCHANGED <<store, nextId, now, pending, retries, seedReturn, seedMsg, bootMsg>>
    /\ UNCHANGED <<oauthVars, demoVars>>

\* input() raises EOFError (the input stream is closed): line 141 catches it
\* and the loop goes on.
InputEOF ==
    /\ pc = "loop"
    /\ pc' = "loop"
    /\ UNCHANGED <<store, nextId, now, response, pending, retries, seedReturn, seedMsg,
                   bootMsg, exitMsg>>
    /\ UNCHANGED <<oauthVars, demoVars>>

\* Ctrl-C at the prompt: KeyboardInterrupt is no Exception, line 141 does not
\* catch it and it ends main() with the interpreter's traceback.
InputInterrupted ==
    /\ pc = "loop"
    /\ pc' = "exited"
    /\ exitMsg' = "traceback"
    /\ response' = NoResponse
    /\ UNCHANGED <<store, nextId, now, pending, retries, seedReturn, seedMsg, bootMsg>>
    /\ UNCHANGED <<oauthVars, demoVars>>

\* Ctrl-C while the agent runs: lines 135-137 print and break.
RunInterrupted ==
    /\ pc = "run"
    /\ pc' = "exited"
    /\ pending' = NoCall
    /\ retries' = 0
    /\ exitMsg' = "interrupted"
    /\ response' = NoResponse
    /\ UNCHANGED <<store, nextId, now, seedReturn, seedMsg, bootMsg>>
    /\ UNCHANGED <<oauthVars, demoVars>>

\* The hosted model composes its reply; run_sync returns (line 132).
FinishRun ==
    /\ pc = "run"
    /\ pending = NoCall
    /\ pc' = "loop"
    /\ UNCHANGED <<store, nextId, now, response, pending, retries, seedReturn, seedMsg,
                   bootMsg, exitMsg>>
    /\ UNCHANGED <<oauthVars, demoVars>>

\* The program is started again on the same store; the new process has seen
\* no tool response and has printed nothing yet.
Restart ==
    /\ pc = "exited"
    /\ pc' = "start"
    /\ response' = NoResponse
    /\ bootMsg' = "none"
    /\ exitMsg' = "none"
    /\ UNCHANGED <<store, nextId, now, pending, retries, seedReturn, seedMsg>>
    /\ UNCHANGED <<oauthVars, demoVars>>

\* Time passes at the store.
Tick ==
    /\ now < MaxNow
    /\ now' = now + 1
    /\ UNCHANGED <<store, nextId, pc, response, pending, retries, seedReturn, seedMsg,
                   bootMsg, exitMsg>>
    /\ UNCHANGED <<oauthVars, demoVars>>

----------------------------------------------------------------------------
(* codescribe/oauth_helper.py: OAuthHelper.                                *)

\* The environment variables the repository reads or writes.
EnvVars == {"GOOGLE_API_KEY", "GOOGLE_GENAI_API_KEY", "LANGEXTRACT_API_KEY",
            "GOOGLE_GENAI_USE_VERTEXAI", "GOOGLE_CLOUD_PROJECT",
            "GOOGLE_CLOUD_LOCATION", "GOOGLE_APPLICATION_CREDENTIALS",
            "GOOGLE_GENAI_PROJECT_ID"}

\* None
NoCreds == [token |-> 0, expired |-> FALSE, refresh_token |-> FALSE]

\* A Credentials object: its access token, whether its expiry has passed and
\* whether it carries a refresh token.
Credential(token, expired, refresh_token) ==
    [token |-> token, expired |-> expired, refresh_token |-> refresh_token]

\* token.json: missing, unparsable, or the JSON of a credential.
MissingFile == [kind |-> "missing", cred |-> NoCreds]
CorruptFile == [kind |-> "corrupt", cred |-> NoCreds]
JsonFile(c) == [kind |-> "json", cred |-> c]

\* creds.valid: a token that has not expired.
Valid(c) == c.token # 0 /\ ~c.expired

\* Mutant: the token file is looked up at a path where it never is.
LoadNothing(file) == NoCreds

\* oauth_helper.py:40-46: the credential loaded from the token file, None when
\* the file is missing or from_authorized_user_file raises.
LoadResult(file) == IF file.kind = "json" THEN file.cred ELSE NoCreds

\* oauth_helper.py:49
NeedsLogin(c) == c = NoCreds \/ ~Valid(c)

\* oauth_helper.py:50
CanRefresh(c) == c # NoCreds /\ c.expired /\ c.refresh_token

\* oauth_helper.py:58: a Credentials object is always truthy.
FlowNeeded(c) == c = NoCreds

\* _run_oauth_flow(): None without credentials.json or when the flow raises,
\* otherwise a fresh credential, with or without a refresh token.
RunOAuthFlow(haveSecrets, outcome, token) ==
    IF ~haveSecrets \/ outcome = "fail"
    THEN NoCreds
    ELSE Credential(token, FALSE, outcome = "with_refresh")

HelperIdle ==
    /\ tokenFile = MissingFile
    /\ credentialsFile = TRUE
    /\ nextToken = 1
    /\ opc = "idle"
    /\ creds = NoCreds
    /\ tokenAtCall = MissingFile
    /\ flowRuns = 0
    /\ refreshRuns = 0
    /\ returned = NoCreds
    /\ caller = "direct"
    /\ setupReturn = "none"

OAuthIdle ==
    /\ HelperIdle
    /\ env = [v \in EnvVars |-> Unset]

\* get_credentials() is entered (line 37).
get_credentials ==
    /\ opc \in {"idle", "done"}
    /\ nextToken <= MaxToken
    /\ opc' = "load"
    /\ creds' = NoCreds
    /\ tokenAtCall' = tokenFile
    /\ flowRuns' = 0
    /\ refreshRuns' = 0
    /\ returned' = NoCreds
    /\ caller' = "direct"
    /\ UNCHANGED <<tokenFile, credentialsFile, nextToken>>
    /\ UNCHANGED <<dbVars, demoVars, setupReturn, env>>

\* setup_environment() is entered and calls get_credentials() (line 102).
setup_environment ==
    /\ opc \in {"idle", "done"}
    /\ nextToken <= MaxToken
    /\ opc' = "load"
    /\ creds' = NoCreds
    /\ tokenAtCall' = tokenFile
    /\ flowRuns' = 0
    /\ refreshRuns' = 0
    /\ returned' = NoCreds
    /\ caller' = "setup"
    /\ setupReturn' = "none"
    /\ UNCHANGED <<tokenFile, credentialsFile, nextToken>>
    /\ UNCHANGED <<dbVars, demoVars, env>>

\* Lines 40-46.
LoadToken ==
    /\ opc = "load"
    /\ creds' = LoadResult(tokenFile)
    /\ opc' = "check"
    /\ UNCHANGED <<tokenFile, credentialsFile, nextToken, tokenAtCall, flowRuns,
                   refreshRuns, returned>>
    /\ UNCHANGED <<dbVars, demoVars, caller, setupReturn, env>>

\* Line 49.
CheckValid ==
    /\ opc = "check"
    /\ opc' = IF NeedsLogin(creds) THEN "refresh" ELSE "save"
    /\ UNCHANGED <<tokenFile, credentialsFile, nextToken, creds, tokenAtCall,
                   flowRuns, refreshRuns, returned>>
    /\ UNCHANGED <<dbVars, demoVars, caller, setupReturn, env>>

\* Mutant: the except branch of the refresh without its creds = None.
RefreshStageKeeps(ok) ==
    /\ opc = "refresh"
    /\ IF CanRefresh(creds)
       THEN /\ creds' = IF ok THEN Credential(nextToken, FALSE, TRUE) ELSE creds
            /\ nextToken' = IF ok THEN nextToken + 1 ELSE nextToken
            /\ refreshRuns' = refreshRuns + 1
       ELSE UNCHANGED <<creds, nextToken, refreshRuns>>
    /\ opc' = "flow"
    /\ UNCHANGED <<tokenFile, credentialsFile, tokenAtCall, flowRuns, returned>>
    /\ UNCHANGED <<dbVars, demoVars, caller, setupReturn, env>>

\* Lines 50-56: ok is whether creds.refresh(Request()) succeeds.
RefreshStage(ok) ==
    /\ opc = "refresh"
    /\ IF CanRefresh(creds)
       THEN /\ creds' = IF ok THEN Credential(nextToken, FALSE, TRUE) ELSE NoCreds
            /\ nextToken' = IF ok THEN nextToken + 1 ELSE nextToken
            /\ refreshRuns' = refreshRuns + 1
       ELSE UNCHANGED <<creds, nextToken, refreshRuns>>
    /\ opc' = "flow"
    /\ UNCHANGED <<tokenFile, credentialsFile, tokenAtCall, flowRuns, returned>>
    /\ UNCHANGED <<dbVars, demoVars, caller, setupReturn, env>>

\* Lines 58-59.
FlowStage(outcome) ==
    /\ opc = "flow"
    /\ IF FlowNeeded(creds)
       THEN LET c == RunOAuthFlow(credentialsFile, outcome, nextToken)
            IN /\ creds' = c
               /\ nextToken' = IF c = NoCreds THEN nextToken ELSE nextToken + 1
               /\ flowRuns' = flowRuns + 1
       ELSE UNCHANGED <<creds, nextToken, flowRuns>>
    /\ opc' = "save"
    /\ UNCHANGED <<tokenFile, credentialsFile, tokenAtCall, refreshRuns, returned>>
    /\ UNCHANGED <<dbVars, demoVars, caller, setupReturn, env>>

\* Lines 62-66 and _save_credentials: the write succeeds, or fails before or
\* after the file was truncated.
SaveAndReturn(write) ==
    /\ opc = "save"
    /\ tokenFile' = IF creds = NoCreds THEN tokenFile
                    ELSE CASE write = "ok" -> JsonFile(creds)
                           [] write = "refused" -> tokenFile
                           [] write = "truncated" -> CorruptFile
    /\ returned' = creds
    /\ opc' = IF caller = "setup" THEN "setup" ELSE "done"
    /\ UNCHANGED <<credentialsFile, nextToken, creds, tokenAtCall, flowRuns,
                   refreshRuns>>
    /\ UNCHANGED <<dbVars, demoVars, caller, setupReturn, env>>

\* Mutant: the environment variable set before the credential is tested.
SetupResultSetsFirst(c, e) ==
    [ret |-> IF c = NoCreds THEN "False" ELSE "True",
     env |-> [e EXCEPT !["GOOGLE_APPLICATION_CREDENTIALS"] = "token.json"]]

\* setup_environment(), lines 103-109: its return value and os.environ after
\* it, from what get_credentials returned.
SetupResult(c, e) ==
    IF c = NoCreds
    THEN [ret |-> "False", env |-> e]
    ELSE [ret |-> "True",
          env |-> [e EXCEPT !["GOOGLE_APPLICATION_CREDENTIALS"] = "token.json"]]

\* Lines 103-109.
SetupReturn ==
    /\ opc = "setup"
    /\ LET r == SetupResult(returned, env)
       IN /\ setupReturn' = r.ret
          /\ env' = r.env
    /\ opc' = "done"
    /\ UNCHANGED <<tokenFile, credentialsFile, nextToken, creds, tokenAtCall,
                   flowRuns, refreshRuns, returned, caller>>
    /\ UNCHANGED <<dbVars, demoVars>>

\* clear_credentials(), lines 111-117.
clear_credentials ==
    /\ opc \in {"idle", "done"}
    /\ tokenFile.kind # "missing"
    /\ tokenFile' = MissingFile
    /\ UNCHANGED <<credentialsFile, nextToken, opc, creds, tokenAtCall, flowRuns,
                   refreshRuns, returned>>
    /\ UNCHANGED <<dbVars, demoVars, caller, setupReturn, env>>

\* Between two calls the expiry of the saved credential passes.
TokenExpires ==
    /\ opc \in {"idle", "done"}
    /\ tokenFile.kind = "json"
    /\ ~tokenFile.cred.expired
    /\ tokenFile' = JsonFile([tokenFile.cred EXCEPT !.expired = TRUE])
    /\ UNCHANGED <<credentialsFile, nextToken, opc, creds, tokenAtCall, flowRuns,
                   refreshRuns, returned>>
    /\ UNCHANGED <<dbVars, demoVars, caller, setupReturn, env>>

----------------------------------------------------------------------------
(* codescribe/config.py and codescribe/langextract_demo.py.                *)

\* Values of the environment variables at the start of the process; "True"
\* and "true" both turn Vertex AI on, the project may be set to nothing.
EnvValues ==
    [ GOOGLE_API_KEY |-> {Unset, "", "test-key"},
      GOOGLE_GENAI_API_KEY |-> {Unset, "genai-key"},
      LANGEXTRACT_API_KEY |-> {Unset, "lx-key"},
      GOOGLE_GENAI_USE_VERTEXAI |-> {Unset, "False", "true", "True"},
      GOOGLE_CLOUD_PROJECT |-> {Unset, "", "project"},
      GOOGLE_CLOUD_LOCATION |-> {Unset, "us-central1"},
      GOOGLE_APPLICATION_CREDENTIALS |-> {Unset, "adc.json"},
      GOOGLE_GENAI_PROJECT_ID |-> {Unset, "genai-project"} ]

\* os.getenv(name, default)
GetEnv(e, name, default) == IF e[name] = Unset THEN default ELSE e[name]

\* str.lower() on the values of GOOGLE_GENAI_USE_VERTEXAI.
LowerValue(v) ==
    CASE v = "True" -> "true"
      [] v = "False" -> "false"
      [] OTHER -> v

\* not x, for x a string or None
Falsy(v) == v = Unset \/ v = ""

\* Config.__init__, line 24: None when the variable is not set.
ConfigInit(e) == [GOOGLE_API_KEY |-> e["GOOGLE_API_KEY"]]

\* Mutant: a validate that only looks for None.
ValidateNoneOnly(cfg) ==
    IF cfg.GOOGLE_API_KEY = Unset THEN "ValueError" ELSE "returned"

\* Config.validate, lines 26-32.
Validate(cfg) ==
    IF Falsy(cfg.GOOGLE_API_KEY) THEN "ValueError" ELSE "returned"

\* Lines 43 and 192: whether the demo is to use Vertex AI.
UseVertexAI(e) == LowerValue(GetEnv(e, "GOOGLE_GENAI_USE_VERTEXAI", "False")) = "true"

\* Mutant: the API-key set-up without lines 33-34.
SetupApiKeyKeepsFlag(cfg, e) ==
    IF Falsy(cfg.GOOGLE_API_KEY)
    THEN [raised |-> TRUE, env |-> e]
    ELSE [raised |-> FALSE,
          env |-> [e EXCEPT !["LANGEXTRACT_API_KEY"] = cfg.GOOGLE_API_KEY]]

\* setup_api_key(), lines 25-37.
SetupApiKey(cfg, e) ==
    IF Falsy(cfg.GOOGLE_API_KEY)
    THEN [raised |-> TRUE, env |-> e]
    ELSE [raised |-> FALSE,
          env |-> [e EXCEPT !["LANGEXTRACT_API_KEY"] = cfg.GOOGLE_API_KEY,
                            !["GOOGLE_GENAI_USE_VERTEXAI"] = Unset]]

\* setup_oauth_credentials(), lines 40-78.
SetupOAuthCredentials(e) ==
    LET use_vertexai == UseVertexAI(e)
        project_id == e["GOOGLE_CLOUD_PROJECT"]
        location == e["GOOGLE_CLOUD_LOCATION"]
        credentials_path == e["GOOGLE_APPLICATION_CREDENTIALS"]
        genai_project_id == e["GOOGLE_GENAI_PROJECT_ID"]
    IN IF Falsy(project_id) \/ Falsy(location) \/ Falsy(credentials_path)
       THEN [raised |-> TRUE, env |-> e]
       ELSE [raised |-> FALSE,
             env |-> [e EXCEPT
                        !["GOOGLE_API_KEY"] = Unset,
                        !["GOOGLE_GENAI_API_KEY"] = Unset,
                        !["GOOGLE_GENAI_USE_VERTEXAI"] =
                            IF use_vertexai THEN "True" ELSE "False",
                        !["GOOGLE_CLOUD_PROJECT"] = project_id,
                        !["GOOGLE_CLOUD_LOCATION"] = location,
                        !["GOOGLE_APPLICATION_CREDENTIALS"] = credentials_path,
                        !["GOOGLE_GENAI_PROJECT_ID"] =
                            IF Falsy(genai_project_id) THEN @ ELSE genai_project_id]]

DemoIdle ==
    /\ config = ConfigInit([v \in EnvVars |-> Unset])
    /\ keyAtInit = Unset
    /\ validated = "none"
    /\ dpc = "idle"
    /\ mode = "none"
    /\ extracted = FALSE

\* patch.dict(os.environ, {"GOOGLE_API_KEY": ...}) of test_config.py, or the
\* variable removed.
PatchApiKey(value) ==
    /\ dpc = "idle"
    /\ env' = [env EXCEPT !["GOOGLE_API_KEY"] = value]
    /\ UNCHANGED <<config, keyAtInit, validated, dpc, mode, extracted>>
    /\ UNCHANGED <<tokenFile, credentialsFile, nextToken, opc, creds, tokenAtCall,
                   flowRuns, refreshRuns, returned, caller, setupReturn>>
    /\ UNCHANGED dbVars

\* Config()
NewConfig ==
    /\ dpc = "idle"
    /\ config' = ConfigInit(env)
    /\ keyAtInit' = env["GOOGLE_API_KEY"]
    /\ validated' = "none"
    /\ UNCHANGED <<dpc, mode, extracted>>
    /\ UNCHANGED <<dbVars, oauthVars>>

\* config.validate()
validate ==
    /\ validated' = Validate(config)
    /\ UNCHANGED <<config, keyAtInit, dpc, mode, extracted>>
    /\ UNCHANGED <<dbVars, oauthVars>>

\* main() of the demo, lines 190-194: the mode is chosen.
ChooseMode ==
    /\ dpc = "idle"
    /\ mode' = IF UseVertexAI(env) THEN "oauth" ELSE "api_key"
    /\ dpc' = "setup"
    /\ UNCHANGED <<config, keyAtInit, validated, extracted>>
    /\ UNCHANGED <<dbVars, oauthVars>>

\* Line 199; what setup_api_key raises is caught at line 219 and main() ends.
setup_api_key ==
    /\ dpc = "setup"
    /\ mode = "api_key"
    /\ LET r == SetupApiKey(config, env)
       IN /\ env' = r.env
          /\ dpc' = IF r.raised THEN "failed" ELSE "extract"
    /\ UNCHANGED <<config, keyAtInit, validated, mode, extracted>>
    /\ UNCHANGED <<tokenFile, credentialsFile, nextToken, opc, creds, tokenAtCall,
                   flowRuns, refreshRuns, returned, caller, setupReturn>>
    /\ UNCHANGED dbVars

\* Line 196; what setup_oauth_credentials raises is caught at line 219.
setup_oauth_credentials ==
    /\ dpc = "setup"
    /\ mode = "oauth"
    /\ LET r == SetupOAuthCredentials(env)
       IN /\ env' = r.env
          /\ dpc' = IF r.raised THEN "failed" ELSE "extract"
    /\ UNCHANGED <<config, keyAtInit, validated, mode, extracted>>
    /\ UNCHANGED <<tokenFile, credentialsFile, nextToken, opc, creds, tokenAtCall,
                   flowRuns, refreshRuns, returned, caller, setupReturn>>
    /\ UNCHANGED dbVars

\* Lines 201-217: run_extraction calls lx.extract and catches what it raises.
run_extraction ==
    /\ dpc = "extract"
    /\ extracted' = TRUE
    /\ dpc' = "done"
    /\ UNCHANGED <<config, keyAtInit, validated, mode>>
    /\ UNCHANGED <<dbVars, oauthVars>>

DbIdle ==
    /\ store = {}
    /\ nextId = 1
    /\ now = 1
    /\ pc = "start"
    /\ response = NoResponse
    /\ pending = NoCall
    /\ retries = 0
    /\ seedReturn = FALSE
    /\ seedMsg = "none"
    /\ bootMsg = "none"
    /\ exitMsg = "none"

Init ==
    /\ DbIdle
    /\ OAuthIdle
    /\ DemoIdle

Next ==
    \/ \E url \in SupabaseSettings, key \in SupabaseSettings, up \in BOOLEAN :
         Connect(get_supabase_client(url, key, up))
    \/ \E fault \in SeedFaults :
         \E k \in 0..(Len(sample_customers) - 1) : seed_database(fault, k)
    \/ \E line \in Lines : ReadInput(line)
    \/ InputEOF
    \/ InputInterrupted
    \/ RunInterrupted
    \/ \E e \in Emails, p \in Profiles : create_customer(e, p[1], p[2])
    \/ \E e \in Emails : get_customer_by_email(e)
    \/ \E e \in Emails, p \in Profiles : update_customer_by_email(e, p[1], p[2])
    \/ \E e \in Emails : delete_customer_by_email(e)
    \/ RetryTool
    \/ FinishRun
    \/ Restart
    \/ Tick

Spec == Init /\ [][Next]_vars

\* One process of agent.py on a store that can be out of reach while a tool
\* runs.
FaultNext ==
    \/ \E url \in SupabaseSettings, key \in SupabaseSettings, up \in BOOLEAN :
         Connect(get_supabase_client(url, key, up))
    \/ \E fault \in SeedFaults :
         \E k \in 0..(Len(sample_customers) - 1) : seed_database(fault, k)
    \/ \E line \in Lines : ReadInput(line)
    \/ \E e \in Emails, p \in Profiles : create_customer(e, p[1], p[2])
    \/ \E e \in Emails : get_customer_by_email(e)
    \/ \E e \in Emails, p \in Profiles : update_customer_by_email(e, p[1], p[2])
    \/ \E e \in Emails : delete_customer_by_email(e)
    \/ RetryTool
    \/ \E c \in Calls : ToolRaises(c)
    \/ RetryRaises
    \/ FinishRun
    \/ RunInterrupted

FaultSpec == Init /\ [][FaultNext]_vars

\* The OAuth helper on its own: token.json starts missing or unparsable,
\* credentials.json is there or not.
OAuthInit ==
    /\ DbIdle
    /\ DemoIdle
    /\ tokenFile \in {MissingFile, CorruptFile}
    /\ credentialsFile \in BOOLEAN
    /\ nextToken = 1
    /\ opc = "idle"
    /\ creds = NoCreds
    /\ tokenAtCall = MissingFile
    /\ flowRuns = 0
    /\ refreshRuns = 0
    /\ returned = NoCreds
    /\ caller = "direct"
    /\ setupReturn = "none"
    /\ \E path \in {Unset, "adc.json"} :
          env = [v \in EnvVars |->
                   IF v = "GOOGLE_APPLICATION_CREDENTIALS" THEN path ELSE Unset]

OAuthNext ==
    \/ get_credentials
    \/ setup_environment
    \/ SetupReturn
    \/ LoadToken
    \/ CheckValid
    \/ \E ok \in BOOLEAN : RefreshStage(ok)
    \/ \E outcome \in {"fail", "with_refresh", "without_refresh"} : FlowStage(outcome)
    \/ \E write \in {"ok", "refused", "truncated"} : SaveAndReturn(write)
    \/ clear_credentials
    \/ TokenExpires

OAuthSpec == OAuthInit /\ [][OAuthNext]_vars

\* The demo and the configuration object on their own: the process starts
\* with any of the environments of EnvValues, and config.py's import has
\* constructed the global Config from it (line 36).
DemoInit ==
    /\ DbIdle
    /\ HelperIdle
    /\ env \in [ GOOGLE_API_KEY : EnvValues.GOOGLE_API_KEY,
                  GOOGLE_GENAI_API_KEY : EnvValues.GOOGLE_GENAI_API_KEY,
                  LANGEXTRACT_API_KEY : EnvValues.LANGEXTRACT_API_KEY,
                  GOOGLE_GENAI_USE_VERTEXAI : EnvValues.GOOGLE_GENAI_USE_VERTEXAI,
                  GOOGLE_CLOUD_PROJECT : EnvValues.GOOGLE_CLOUD_PROJECT,
                  GOOGLE_CLOUD_LOCATION : EnvValues.GOOGLE_CLOUD_LOCATION,
                  GOOGLE_APPLICATION_CREDENTIALS :
                      EnvValues.GOOGLE_APPLICATION_CREDENTIALS,
                  GOOGLE_GENAI_PROJECT_ID : EnvValues.GOOGLE_GENAI_PROJECT_ID ]
    /\ config = ConfigInit(env)
    /\ keyAtInit = env["GOOGLE_API_KEY"]
    /\ validated = "none"
    /\ dpc = "idle"
    /\ mode = "none"
    /\ extracted = FALSE

DemoNext ==
    \/ \E value \in EnvValues["GOOGLE_API_KEY"] : PatchApiKey(value)
    \/ NewConfig
    \/ validate
    \/ ChooseMode
    \/ setup_api_key
    \/ setup_oauth_credentials
    \/ run_extraction

DemoSpec == DemoInit /\ [][DemoNext]_vars

----------------------------------------------------------------------------
(* Properties of the customer store, the accessors and seeding.            *)

HasEmail(table, email) == \E r \in table : r.email = email

\* The step is an invocation of create_customer, first or retried.
CreateStep(e, n, b) ==
    \/ create_customer(e, n, b)
    \/ (pending = Call("create", e, n, b) /\ RetryTool)

\* The rows of the table without the columns the store assigns.
Payloads(table) ==
    {[email |-> r.email, full_name |-> r.full_name, bio |-> r.bio] : r \in table}

\* The table holds the three sample rows and nothing else.
Seeded(table) ==
    /\ Cardinality(table) = Len(sample_customers)
    /\ Payloads(table) = {sample_customers[i] : i \in 1..Len(sample_customers)}

\* C1: a Read by an email that follows its successful Create returns exactly
\* one record, with the full_name and bio passed to Create and with an id and
\* a created_at that are not null.
C1_CreateThenRead ==
    [][\A e \in Emails :
          ( /\ response.op = "create"
            /\ response.error = "none"
            /\ response.email = e
            /\ get_customer_by_email(e) )
          => /\ response'.error = "none"
             /\ Cardinality(response'.data) = 1
             /\ \A r \in response'.data :
                   /\ r.email = e
                   /\ r.full_name = response.full_name
                   /\ r.bio = response.bio
                   /\ r.id # Null
                   /\ r.created_at # Null]_vars

\* A Read has returned the row that the latest insert created for an email
\* seeding never creates.
C1_Witness ==
    /\ response.op = "read"
    /\ response.email = "test@example.com"
    /\ \E r \in response.data : r.id = nextId - 1

\* C2: a Create whose email is already in the store raises a uniqueness
\* violation and leaves the store exactly as it was.
C2_DuplicateCreateFails ==
    [][\A e \in Emails, p \in Profiles :
          (HasEmail(store, e) /\ CreateStep(e, p[1], p[2]))
          => /\ response'.error = "unique_violation"
             /\ response'.data = {}
             /\ store' = store]_vars

\* A Create was refused for an email whose row is stored with another profile.
C2_Witness ==
    /\ response.op = "create"
    /\ response.error = "unique_violation"
    /\ \E r \in store : r.email = response.email /\ r.full_name # response.full_name

\* C3: no two rows of the store have the same email.
C3_EmailUnique ==
    \A r1 \in store, r2 \in store : r1.email = r2.email => r1 = r2

\* The wrapper has retried a Create that raised, and the email has one row.
C3_Witness ==
    /\ pending.op = "create"
    /\ retries >= 1
    /\ response.error = "unique_violation"
    /\ Cardinality({r \in store : r.email = pending.email}) = 1

\* C4: an Update by an email that is not in the store raises nothing, returns
\* no rows and leaves the store as it was.
C4_UpdateMissingNoOp ==
    [][\A e \in Emails, p \in Profiles :
          (~HasEmail(store, e) /\ update_customer_by_email(e, p[1], p[2]))
          => /\ response'.error = "none"
             /\ response'.data = {}
             /\ store' = store]_vars

\* An Update returned no rows while the store holds rows of other emails.
C4_Witness ==
    /\ response.op = "update"
    /\ response.error = "none"
    /\ response.data = {}
    /\ store # {}
    /\ ~HasEmail(store, response.email)

\* C5: a Delete by an email that is not in the store raises nothing, returns
\* no rows and leaves the store as it was.
C5_DeleteMissingNoOp ==
    [][\A e \in Emails :
          (~HasEmail(store, e) /\ delete_customer_by_email(e))
          => /\ response'.error = "none"
             /\ response'.data = {}
             /\ store' = store]_vars

\* A Delete returned no rows while the store holds rows of other emails.
C5_Witness ==
    /\ response.op = "delete"
    /\ response.error = "none"
    /\ response.data = {}
    /\ store # {}

\* C6: an Update by a stored email changes the full_name and bio of that row
\* and nothing else (its id, email and created_at stay, every other row
\* stays), and a Read by that email that follows returns the new values.
C6_UpdateFrame ==
    [][\A e \in Emails :
          /\ \A p \in Profiles :
                (HasEmail(store, e) /\ update_customer_by_email(e, p[1], p[2]))
                => /\ response'.error = "none"
                   /\ {r \in store' : r.email # e} = {r \in store : r.email # e}
                   /\ Cardinality(store') = Cardinality(store)
                   /\ \A r \in store : r.email = e =>
                         [id |-> r.id, email |-> e, full_name |-> p[1],
                          bio |-> p[2], created_at |-> r.created_at] \in store'
          /\ ( /\ response.op = "update"
               /\ response.email = e
               /\ response.data # {}
               /\ get_customer_by_email(e) )
             => /\ Cardinality(response'.data) = 1
                /\ \A r \in response'.data :
                      r.full_name = response.full_name /\ r.bio = response.bio]_vars

\* An Update changed a row created earlier, in a store with other rows.
C6_Witness ==
    /\ response.op = "update"
    /\ Cardinality(store) > 1
    /\ \E r \in store :
          /\ r.email = response.email
          /\ r.full_name = response.full_name
          /\ r.created_at < now

C8_SeedIdempotent ==
    [][seed_database("none", 0)
       => /\ seedReturn' = TRUE
          /\ IF store = {}
             THEN Seeded(store') /\ seedMsg' = "seeded"
             ELSE store' = store /\ seedMsg' = "skipped"]_vars

\* A second call found the three rows of the first (no insert was attempted
\* since) and skipped.
C8_Witness ==
    /\ seedMsg = "skipped"
    /\ seedReturn = TRUE
    /\ Seeded(store)
    /\ nextId = Len(sample_customers) + 1

----------------------------------------------------------------------------
(* Properties of agent.py: the tool wrapper, startup and the loop.         *)

\* The step is one invocation of a tool, first or retried, reaching the store
\* or not.
ToolStep ==
    \/ \E e \in Emails, p \in Profiles : create_customer(e, p[1], p[2])
    \/ \E e \in Emails : get_customer_by_email(e)
    \/ \E e \in Emails, p \in Profiles : update_customer_by_email(e, p[1], p[2])
    \/ \E e \in Emails : delete_customer_by_email(e)
    \/ \E c \in Calls : ToolRaises(c)
    \/ RetryTool
    \/ RetryRaises

\* C13: an invocation of any tool that raised is made again at most 3 times;
\* when the third retry raises too the error is surfaced (nothing is left to
\* retry) and main() is back in its loop, never ended.
C13_RetryBudget ==
    /\ [](pending # NoCall => (pc = "run" /\ retries < ToolRetries))
    /\ [][ /\ (RetryTool \/ RetryRaises) => retries + 1 <= 3
           /\ (ToolStep /\ response'.error # "none")
              => IF pending = NoCall \/ retries + 1 < 3
                 THEN /\ pc' = "run"
                      /\ pending'.op = response'.op
                      /\ pending'.email = response'.email
                      /\ retries' = IF pending = NoCall THEN 0 ELSE retries + 1
                 ELSE /\ pc' = "loop"
                      /\ pending' = NoCall
           /\ ToolStep => pc' \in {"run", "loop"} ]_vars

\* A Delete that found the store out of reach four times (the invocation and
\* its three retries) was surfaced, and main() is back at its prompt.
C13_Witness ==
    /\ pc = "loop"
    /\ pending = NoCall
    /\ response.op = "delete"
    /\ response.error = "unavailable"
    /\ HasEmail(store, response.email)

\* C14: when seed_database failed (it returned False), main() has printed the
\* warning of line 114 and not the success line of line 112, and is in its
\* loop or past it.
C14_SeedFailureWarns ==
    (bootMsg \in {"seed success", "seed warning"} /\ seedReturn = FALSE)
    => /\ bootMsg = "seed warning"
       /\ pc \in {"loop", "run", "exited"}

\* C15: when SUPABASE_URL or SUPABASE_KEY is missing or create_client raises,
\* main() prints the connection failure and ends; nothing is seeded, no input
\* is read and no tool runs in that process.
C15_ConnectFailureEnds ==
    /\ [](bootMsg = "connect failed" => (pc = "exited" /\ exitMsg = "none"))
    /\ [][ /\ \A url \in SupabaseSettings, key \in SupabaseSettings, up \in BOOLEAN :
                 ( /\ (url \in {Unset, ""} \/ key \in {Unset, ""} \/ ~up)
                   /\ Connect(get_supabase_client(url, key, up)) )
                 => /\ bootMsg' = "connect failed"
                    /\ pc' = "exited"
                    /\ UNCHANGED <<store, nextId, response, pending, seedReturn, seedMsg>>
           /\ bootMsg = "connect failed"
              => /\ pc' \in {"exited", "start"}
                 /\ UNCHANGED <<store, nextId, response, pending, seedReturn, seedMsg>>
         ]_vars

\* main() failed to connect and ended, on a store an earlier process seeded.
C15_Witness ==
    /\ pc = "exited"
    /\ bootMsg = "connect failed"
    /\ Seeded(store)
    /\ seedMsg = "seeded"

\* The lines of Lines that are an exit token once stripped and lower-cased,
\* those that are empty once stripped, and the others.
QuitLines == {<<"q">>, <<" ", "Q", "u", "i", "t", " ">>, <<"E", "X", "I", "T">>}
EmptyLines == {<<>>, <<" ", "\t">>}
QueryLines == {<<"q", " ", "q">>, <<"h", "i">>}

\* C16 as stated: the loop ends only at an exit token, which runs no agent;
\* an empty line runs no agent and the loop reads on; any other line runs
\* the agent once, and whenever a run is over the loop reads the next line.
C16_LoopEndsOnlyAtExitToken ==
    [][ /\ (pc \in {"loop", "run"} /\ pc' = "exited")
           => \E l \in QuitLines : ReadInput(l)
        /\ \A l \in QuitLines : ReadInput(l) => pc' = "exited"
        /\ \A l \in EmptyLines : ReadInput(l) => pc' = "loop"
        /\ \A l \in QueryLines : ReadInput(l) => pc' = "run"
        /\ (pc = "run" /\ pc' # "run") => pc' = "loop" ]_vars

\* C16, amended: the loop ends only at an exit token or at a
\* KeyboardInterrupt (at the prompt or while the agent runs); an exit token
\* runs no agent; an empty line runs no agent and the loop reads on; any
\* other line runs the agent once, and a run that is over without a
\* KeyboardInterrupt, returned or raised, leaves the loop reading.
C16_LoopEndsAtExitTokenOrInterrupt ==
    [][ /\ (pc \in {"loop", "run"} /\ pc' = "exited")
           => \/ \E l \in QuitLines : ReadInput(l)
              \/ InputInterrupted
              \/ RunInterrupted
        /\ \A l \in QuitLines : ReadInput(l) => pc' = "exited"
        /\ \A l \in EmptyLines : ReadInput(l) => pc' = "loop"
        /\ \A l \in QueryLines : ReadInput(l) => pc' = "run"
        /\ (pc = "run" /\ pc' # "run") => (pc' = "loop" \/ RunInterrupted) ]_vars

\* An exit token ended the loop after an agent run had created a customer.
C16_Witness ==
    /\ pc = "exited"
    /\ exitMsg = "goodbye"
    /\ HasEmail(store, "test@example.com")

\* C19: a call of seed_database on an empty table leaves the table with the
\* three sample rows (and returns True) or empty (and returns False),
\* whichever statement failed and however many rows were inserted before it.
C19_SeedAllOrNothing ==
    [][\A fault \in SeedFaults, k \in 0..(Len(sample_customers) - 1) :
          (store = {} /\ seed_database(fault, k))
          => /\ (store' = {} \/ Seeded(store'))
             /\ (seedReturn' = TRUE <=> Seeded(store'))]_vars

\* Seeding failed on an empty table after its transaction had used ids: the
\* rows inserted before the failure were rolled back.
C19_Witness ==
    /\ pc = "loop"
    /\ seedMsg = "error"
    /\ seedReturn = FALSE
    /\ response = NoResponse
    /\ store = {}
    /\ nextId = Len(sample_customers)

----------------------------------------------------------------------------
(* Properties of OAuthHelper.get_credentials.                              *)

\* C9: when the token file held a non-expired credential as get_credentials
\* was entered, the call runs neither the refresh nor the interactive flow
\* and returns that credential.
C9_ValidTokenReturned ==
    ( /\ tokenAtCall.kind = "json"
      /\ ~tokenAtCall.cred.expired
      /\ opc \in {"check", "refresh", "flow", "save", "done"} )
    => /\ flowRuns = 0
       /\ refreshRuns = 0
       /\ creds = tokenAtCall.cred
       /\ (opc = "done" => returned = tokenAtCall.cred)

\* A call that found a saved non-expired credential has returned.
C9_Witness ==
    /\ opc = "done"
    /\ tokenAtCall.kind = "json"
    /\ ~tokenAtCall.cred.expired
    /\ returned = tokenAtCall.cred

\* C10: when the credential loaded from the token file is expired and has no
\* refresh token, get_credentials calls the interactive flow and never
\* returns the loaded credential.
C10_ExpiredWithoutRefreshRunsFlow ==
    ( /\ opc = "done"
      /\ tokenAtCall.kind = "json"
      /\ tokenAtCall.cred.expired
      /\ ~tokenAtCall.cred.refresh_token )
    => /\ flowRuns = 1
       /\ returned # tokenAtCall.cred

\* C11: a token file that is missing or does not parse gives no credential,
\* no refresh, and the interactive flow is called; an expired credential with
\* a refresh token is refreshed once, and when the refresh failed the
\* credential is dropped and the interactive flow is called.  The call goes
\* on to its save stage in every case.
C11_LoadAndRefreshFailuresFallBack ==
    /\ ( tokenAtCall.kind \in {"missing", "corrupt"} /\ opc # "idle" /\ opc # "load" )
       => /\ refreshRuns = 0
          /\ (opc \in {"check", "refresh", "flow"} => creds = NoCreds)
          /\ (opc \in {"save", "done"} => flowRuns = 1)
    /\ ( /\ tokenAtCall.kind = "json"
         /\ tokenAtCall.cred.expired
         /\ tokenAtCall.cred.refresh_token
         /\ opc \in {"save", "done"} )
       => /\ refreshRuns = 1
          /\ \/ flowRuns = 1
             \/ (flowRuns = 0 /\ creds.token # 0 /\ ~creds.expired
                 /\ creds # tokenAtCall.cred)

\* A call that loaded an expired credential with a refresh token has failed
\* to refresh it, run the interactive flow and returned the flow's credential.
C11_Witness ==
    /\ opc = "done"
    /\ tokenAtCall.kind = "json"
    /\ tokenAtCall.cred.expired
    /\ tokenAtCall.cred.refresh_token
    /\ refreshRuns = 1
    /\ flowRuns = 1
    /\ returned.token # 0

\* C12: when the interactive flow is needed and credentials.json is missing
\* or the flow fails, get_credentials keeps no credential, leaves the token
\* file as it is and returns None; setup_environment then returns False and
\* leaves os.environ (GOOGLE_APPLICATION_CREDENTIALS included) as it is.
C12_TotalFailureReturnsNone ==
    [][ /\ ( /\ opc = "flow"
             /\ creds = NoCreds
             /\ (~credentialsFile \/ FlowStage("fail")) )
           => (creds' = NoCreds /\ tokenFile' = tokenFile /\ opc' = "save")
        /\ (opc = "save" /\ creds = NoCreds)
           => /\ returned' = NoCreds
              /\ tokenFile' = tokenFile
              /\ opc' \in {"setup", "done"}
        /\ (opc = "setup" /\ returned = NoCreds)
           => /\ setupReturn' = "False"
              /\ env' = env
              /\ opc' = "done" ]_vars

\* setup_environment returned False after a failed refresh and a failed flow,
\* with GOOGLE_APPLICATION_CREDENTIALS still naming the file it named before.
C12_Witness ==
    /\ opc = "done"
    /\ caller = "setup"
    /\ setupReturn = "False"
    /\ returned = NoCreds
    /\ refreshRuns = 1
    /\ flowRuns = 1
    /\ tokenFile = tokenAtCall
    /\ tokenFile.kind = "json"
    /\ env["GOOGLE_APPLICATION_CREDENTIALS"] = "adc.json"

----------------------------------------------------------------------------
(* Properties of config.py and langextract_demo.py.                        *)

\* C17: validate raises ValueError exactly when GOOGLE_API_KEY was not set,
\* or set to the empty string, when the Config was constructed, whatever the
\* environment holds when validate is called.
C17_ValidateRaisesIffKeyMissing ==
    validated # "none"
    => (validated = "ValueError" <=> keyAtInit \in {Unset, ""})

\* validate raised for a Config constructed while GOOGLE_API_KEY was empty,
\* although the variable has been set since.
C17_Witness ==
    /\ validated = "ValueError"
    /\ keyAtInit = ""
    /\ env["GOOGLE_API_KEY"] = "test-key"

\* C18: once the set-up of the chosen mode has returned, in API-key mode
\* LANGEXTRACT_API_KEY is the configured key and GOOGLE_GENAI_USE_VERTEXAI
\* is absent; in OAuth mode GOOGLE_API_KEY and GOOGLE_GENAI_API_KEY are
\* absent and the project, the location and the credentials path are set;
\* run_extraction is called only after a set-up that returned.
C18_OneAuthMode ==
    /\ (dpc \in {"extract", "done"} /\ mode = "api_key")
       => /\ config.GOOGLE_API_KEY \notin {Unset, ""}
          /\ env["LANGEXTRACT_API_KEY"] = config.GOOGLE_API_KEY
          /\ env["GOOGLE_GENAI_USE_VERTEXAI"] = Unset
    /\ (dpc \in {"extract", "done"} /\ mode = "oauth")
       => /\ env["GOOGLE_API_KEY"] = Unset
          /\ env["GOOGLE_GENAI_API_KEY"] = Unset
          /\ env["GOOGLE_CLOUD_PROJECT"] \notin {Unset, ""}
          /\ env["GOOGLE_CLOUD_LOCATION"] \notin {Unset, ""}
          /\ env["GOOGLE_APPLICATION_CREDENTIALS"] \notin {Unset, ""}
    /\ dpc = "failed" => ~extracted
    /\ extracted => dpc = "done"

\* The demo ran its extraction in OAuth mode after the set-up removed the
\* API key the Config had read.
C18_Witness ==
    /\ dpc = "done"
    /\ extracted
    /\ mode = "oauth"
    /\ config.GOOGLE_API_KEY = "test-key"
    /\ env["GOOGLE_API_KEY"] = Unset
    /\ env["GOOGLE_GENAI_USE_VERTEXAI"] = "True"

====
